---- MODULE Spec2Model ----
(***************************************************************************)
(* Model of RVC-MODEL-INSTALLER.py: the Model Root directory, the list     *)
(* widget, and the handlers dropEvent / handle_dropped_item, load_models,  *)
(* remove_model, rename_model and update_model_path_from_text.             *)
(*                                                                         *)
(* File names are sequences of one-character strings, so that pathlib's    *)
(* stem / suffix split, the f"{model_name}_{counter}" formatting and the   *)
(* glyph appended to a display name are computed, not assumed.             *)
(***************************************************************************)
EXTENDS Integers, Sequences, FiniteSets, TLC

VARIABLES
    fs,          \* the filesystem: each candidate Model Root, present or not, and its children
    model_path,  \* self.model_path
    saved_path,  \* contents of RVC_MODEL_INSTALLER_FOLDER.txt ("" when the file is absent)
    model_list,  \* self.model_list: the rows, each with its text and tooltip
    currentRow,  \* self.model_list.currentRow(), -1 when no row is current
    last,        \* the handler that ran last and its inputs
    ops          \* how many events (handler runs, outside changes) the session has seen

vars == <<fs, model_path, saved_path, model_list, currentRow, last, ops>>

\* ------------------------------------------------------------------ bounds

\* Most children the Model Roots hold together (guards the imports and the
\* folders other programs create).
MaxEntries == 3
\* Most events in one session of the program.
MaxOps == 4

\* ------------------------------------------------------------------ names

voiceA == <<"v", "o", "i", "c", "e", "A">>
voiceB == <<"v", "o", "i", "c", "e", "B">>
extra == <<"e", "x", "t", "r", "a">>
odd == <<"o", "d", "d">>
gone == <<"g", "o", "n", "e">>
DotPth == <<".", "p", "t", "h">>
DotIndex == <<".", "i", "n", "d", "e", "x">>
DotTxt == <<".", "t", "x", "t">>

\* The characters in use, in code point order (str comparison, which sorted() uses).
\* "[!]" and "[?]" stand for the warning sign and the question mark ornament.
CodeOrder ==
    <<" ", ".", "0", "1", "2", "3", "4", "5", "6", "7", "8", "9", "A", "B", "_",
      "a", "c", "d", "e", "g", "h", "i", "n", "o", "p", "r", "t", "v", "x", "[!]", "[?]">>

\* ord(c), up to the order it induces on the characters in use.
Code == [c \in {CodeOrder[i] : i \in 1..Len(CodeOrder)} |->
            CHOOSE i \in 1..Len(CodeOrder) : CodeOrder[i] = c]

\* a < b for two names, as str.__lt__ decides it: a proper prefix is smaller,
\* else the first differing character decides.
RECURSIVE LtName(_, _)
LtName(a, b) ==
    IF b = <<>> THEN FALSE
    ELSE IF a = <<>> THEN TRUE
    ELSE IF Head(a) = Head(b) THEN LtName(Tail(a), Tail(b))
    ELSE Code[Head(a)] < Code[Head(b)]

\* Index of the last "." of a name, 0 when there is none (str.rfind).
LastDot(name) ==
    LET dots == {i \in 1..Len(name) : name[i] = "."}
    IN IF dots = {} THEN 0 ELSE CHOOSE i \in dots : \A j \in dots : j <= i

\* Path.suffix: from the last dot on, unless the dot leads or ends the name.
Suffix(name) ==
    LET i == LastDot(name)
    IN IF 1 < i /\ i < Len(name) THEN SubSeq(name, i, Len(name)) ELSE <<>>

\* Path.stem: the name without its suffix.
Stem(name) ==
    LET i == LastDot(name)
    IN IF 1 < i /\ i < Len(name) THEN SubSeq(name, 1, i - 1) ELSE name

\* str(counter): the decimal digits of a natural number.
RECURSIVE Digits(_)
Digits(k) ==
    LET d == CodeOrder[Code["0"] + (k % 10)]
    IN IF k < 10 THEN <<d>> ELSE Digits(k \div 10) \o <<d>>

\* ------------------------------------------------------------------ filesystem

Roots == {"default", "other"}
DEFAULT_MODELS_PATH == "default"

File(name) == [name |-> name, kind |-> "file", children |-> {}]
Dir(name, children) == [name |-> name, kind |-> "dir", children |-> children]
Child(name, kind) == [name |-> name, kind |-> kind]

\* What can be dragged onto the drop label. kind "none": the path does not exist.
Sources ==
    { File(voiceA \o DotPth),
      File(voiceA \o DotIndex),
      File(extra \o DotTxt),
      [name |-> gone \o DotPth, kind |-> "none", children |-> {}],
      Dir(odd, {Child(<<"x">> \o DotPth, "dir"), Child(<<"x">> \o DotIndex, "file")}) }

Names(ents) == {e.name : e \in ents}
Entry(ents, name) == CHOOSE e \in ents : e.name = name

\* sorted(...): a set of entries as the sequence ordered by name.
RECURSIVE Sorted(_)
Sorted(ents) ==
    IF ents = {} THEN <<>>
    ELSE LET m == CHOOSE x \in ents : \A y \in ents : ~LtName(y.name, x.name)
         IN <<m>> \o Sorted(ents \ {m})

IsDir(e) == e.kind = "dir"

\* [f for f in sorted(self.model_path.iterdir()) if f.is_dir()]
Folders(ents) == SelectSeq(Sorted(ents), IsDir)

\* ------------------------------------------------------------------ load_models

NoTip == ""
EmptyTip == "Folder is empty."
MissingPthTip == "Missing .pth file(s). Model won't work."
MissingIndexTip == "Missing .index file(s). Model won't work."
MissingBothTip == "Missing .pth, .index file(s). Model won't work."
EmptyGlyph == <<" ", "[?]">>
WarnGlyph == <<" ", "[!]">>

\* HasFile without the is_file() filter.
HasFileAnyKind(e, ext) == \E c \in e.children : Suffix(c.name) = ext

\* any(f.suffix == ext for f in folder.iterdir() if f.is_file())
HasFile(e, ext) == \E c \in e.children : c.kind = "file" /\ Suffix(c.name) = ext

\* The row load_models adds for one folder: its display name and tooltip.
Item(e) ==
    LET has_pth == HasFile(e, DotPth)
        has_index == HasFile(e, DotIndex)
        has_any == e.children # {}
    IN IF ~has_any THEN [text |-> e.name \o EmptyGlyph, tip |-> EmptyTip]
       ELSE IF ~has_pth \/ ~has_index
       THEN [text |-> e.name \o WarnGlyph,
             tip |-> IF ~has_pth /\ ~has_index THEN MissingBothTip
                     ELSE IF ~has_pth THEN MissingPthTip ELSE MissingIndexTip]
       ELSE [text |-> e.name, tip |-> NoTip]

\* The rows for the folders of a Model Root, in sorted order.
Enumerate(ents) ==
    LET folders == Folders(ents)
    IN [i \in 1..Len(folders) |-> Item(folders[i])]

\* self.model_path.mkdir(parents=True) when the root does not exist.
EnsureRoot(f, r) == [f EXCEPT ![r].exists = TRUE]

\* load_models on filesystem f with Model Root r: the list is cleared (no row is
\* current any more), the root created if absent, and the rows rebuilt.
load_models(f, r) ==
    /\ fs' = EnsureRoot(f, r)
    /\ model_list' = Enumerate(EnsureRoot(f, r)[r].ents)
    /\ currentRow' = -1

\* ------------------------------------------------------------------ handle_dropped_item

\* dest = root / f"{model_name}_{counter}", counter += 1, while dest exists.
RECURSIVE Probe(_, _, _)
Probe(names, model_name, counter) ==
    LET dest == model_name \o <<"_">> \o Digits(counter)
    IN IF dest \in names THEN Probe(names, model_name, counter + 1) ELSE dest

\* FreeName without the exists() probe.
FreeNameNoCheck(names, model_name) == model_name

\* The destination name: model_name itself when free, else the first free suffix.
FreeName(names, model_name) ==
    IF model_name \in names THEN Probe(names, model_name, 1) ELSE model_name

\* handle_dropped_item(path) for one path: the children of the Model Root afterwards.
ImportSingle(ents, source) ==
    IF source.kind = "none" THEN ents
    ELSE IF source.kind = "file" /\ Suffix(source.name) = DotPth
    THEN LET dest_folder == FreeName(Names(ents), Stem(source.name))
         IN ents \cup {Dir(dest_folder, {Child(source.name, "file")})}
    ELSE LET model_name == IF source.kind = "file" THEN Stem(source.name) ELSE source.name
             dest == FreeName(Names(ents), model_name)
         IN IF source.kind = "file"
            THEN ents \cup {File(dest)}
            ELSE ents \cup {Dir(dest, source.children)}

\* for f in files: self.handle_dropped_item(str(f))
RECURSIVE ImportEach(_, _)
ImportEach(ents, files) ==
    IF files = <<>> THEN ents
    ELSE ImportEach(ImportSingle(ents, Head(files)), Tail(files))

\* ImportPair importing the two files one by one.
ImportPairSplit(ents, pth_file, index_file) == ImportEach(ents, <<pth_file, index_file>>)

\* The branch for one .pth and one .index path: mkdir, then the two copy2 calls,
\* the first raising one ending the branch with the folder left as it is.
ImportPair(ents, pth_file, index_file) ==
    LET dest_folder == FreeName(Names(ents), Stem(pth_file.name))
        copied == IF pth_file.kind # "file" THEN {}
                  ELSE IF index_file.kind # "file" THEN {Child(pth_file.name, "file")}
                  ELSE {Child(pth_file.name, "file"), Child(index_file.name, "file")}
    IN ents \cup {Dir(dest_folder, copied)}

IsPth(f) == Suffix(f.name) = DotPth
IsIndex(f) == Suffix(f.name) = DotIndex

\* handle_dropped_item(path) for a list of paths.
ImportList(ents, files) ==
    LET pth_files == SelectSeq(files, IsPth)
        index_files == SelectSeq(files, IsIndex)
    IN IF Len(pth_files) = 1 /\ Len(index_files) = 1
       THEN ImportPair(ents, pth_files[1], index_files[1])
       ELSE ImportEach(ents, files)

\* handle_dropped_item as dropEvent calls it: a list for several paths, else the path.
handle_dropped_item(ents, local_paths) ==
    IF Len(local_paths) > 1 THEN ImportList(ents, local_paths)
    ELSE ImportSingle(ents, local_paths[1])

\* ------------------------------------------------------------------ state machine

Distinct(p) == \A i, j \in 1..Len(p) : i # j => p[i] # p[j]

\* Every ordering of the members of a set.
Orderings(S) == {p \in [1..Cardinality(S) -> S] : Distinct(p)}

\* The larger drops: the weights file, its index file and one more file; and a
\* batch with no index file.
Triples ==
    { {File(voiceA \o DotPth), File(voiceA \o DotIndex), File(extra \o DotTxt)},
      {File(voiceA \o DotPth), File(extra \o DotTxt),
       Dir(odd, {Child(<<"x">> \o DotPth, "dir"), Child(<<"x">> \o DotIndex, "file")})} }

\* The drops: every single source, every ordered pair of distinct sources, and
\* every ordering of each of Triples.
Drops ==
    {<<s>> : s \in Sources}
        \cup {p \in [1..2 -> Sources] : Distinct(p)}
        \cup UNION {Orderings(T) : T \in Triples}

TotalEntries(f) == Cardinality(UNION {{<<r, e>> : e \in f[r].ents} : r \in Roots})

\* The record of a handler run: which one, with which inputs, and whether it
\* ended in load_models.
NoOp ==
    [op |-> "init", paths |-> <<>>, row |-> -1, new_name |-> <<>>, ok |-> FALSE,
     reply |-> "No", rm_ok |-> TRUE, loaded |-> TRUE]

\* get_model_path(): the saved path when the file holds one, else the default.
get_model_path(saved) == IF saved # "" THEN saved ELSE DEFAULT_MODELS_PATH

\* set_model_path(path): the path is written to the file.
set_model_path(path) == saved_path' = path

\* What the default Model Root may hold when the program starts: nothing, or
\* two models of an earlier session (voiceA complete, voiceA_2 without its index).
Installed ==
    { {},
      { Dir(voiceA, {Child(voiceA \o DotPth, "file"), Child(voiceA \o DotIndex, "file")}),
        Dir(voiceA \o <<"_", "2">>, {Child(voiceA \o DotPth, "file")}) } }

\* The state after ModelInstaller.__init__: no saved path, so the default root,
\* which the first load_models has created if need be and listed.
Init ==
    /\ saved_path = ""
    /\ model_path = get_model_path("")
    /\ \E ents \in Installed :
         /\ fs = [r \in Roots |-> IF r = get_model_path("")
                                  THEN [exists |-> TRUE, ents |-> ents]
                                  ELSE [exists |-> FALSE, ents |-> {}]]
         /\ model_list = Enumerate(ents)
    /\ currentRow = -1
    /\ last = NoOp
    /\ ops = 0

\* One more event of the session.
Tick == ops < MaxOps /\ ops' = ops + 1

\* DropLabel.dropEvent: import the dropped paths, then load_models.
dropEvent(local_paths) ==
    LET ents == handle_dropped_item(fs[model_path].ents, local_paths)
        f == [fs EXCEPT ![model_path].ents = ents]
    IN /\ Tick
       /\ TotalEntries(f) <= MaxEntries
       /\ load_models(f, model_path)
       /\ last' = [NoOp EXCEPT !.op = "drop", !.paths = local_paths]
       /\ UNCHANGED <<model_path, saved_path>>

\* The user makes a row of the list current.
SelectRow(i) ==
    /\ Tick
    /\ i \in 0..(Len(model_list) - 1)
    /\ currentRow' = i
    /\ last' = [NoOp EXCEPT !.op = "select", !.row = i, !.loaded = FALSE]
    /\ UNCHANGED <<fs, model_path, saved_path, model_list>>

\* The Refresh button and the 30 second timer: load_models.
Refresh ==
    /\ Tick
    /\ load_models(fs, model_path)
    /\ last' = [NoOp EXCEPT !.op = "refresh"]
    /\ UNCHANGED <<model_path, saved_path>>

\* update_model_path_from_text, also reached from browse_model_path.
update_model_path_from_text(new_path) ==
    /\ Tick
    /\ last' = [NoOp EXCEPT !.op = "root", !.loaded = (new_path # model_path)]
    /\ IF new_path # model_path
       THEN /\ model_path' = new_path
            /\ set_model_path(new_path)
            /\ load_models(fs, new_path)
       ELSE UNCHANGED <<fs, model_path, saved_path, model_list, currentRow>>

\* shutil.rmtree(model_path) raising part-way: the folder is still there, with
\* the children in kept.
RmtreeFailed(ents, e, kept) == (ents \ {e}) \cup {[e EXCEPT !.children = kept]}

\* Confirmed with the reply ignored.
ConfirmedAlways(reply) == TRUE

\* if reply == QMessageBox.Yes
Confirmed(reply) == reply = "Yes"

\* remove_model: the row index is looked up in a fresh listing of the folders.
\* rm_ok: shutil.rmtree does not raise; kept: what is left in the folder when it does.
remove_model(reply, rm_ok, kept) ==
    /\ Tick
    /\ LET selected == currentRow
           folders == Folders(fs[model_path].ents)
           rec == [NoOp EXCEPT !.op = "remove", !.row = selected, !.reply = reply,
                               !.rm_ok = rm_ok, !.loaded = FALSE]
       IN IF selected < 0 \/ selected >= Len(folders) \/ ~Confirmed(reply)
          THEN /\ rm_ok /\ kept = {}
               /\ last' = rec
               /\ UNCHANGED <<fs, model_path, saved_path, model_list, currentRow>>
          ELSE LET target == folders[selected + 1]
               IN IF rm_ok
                  THEN /\ kept = {}
                       /\ load_models([fs EXCEPT ![model_path].ents = @ \ {target}],
                                      model_path)
                       /\ last' = [rec EXCEPT !.loaded = TRUE]
                       /\ UNCHANGED <<model_path, saved_path>>
                  ELSE /\ kept \subseteq target.children
                       /\ fs' = [fs EXCEPT ![model_path].ents =
                                     RmtreeFailed(@, target, kept)]
                       /\ last' = rec
                       /\ UNCHANGED <<model_path, saved_path, model_list, currentRow>>

\* Path.rename(new_path) of the child called old (rename(2) puts it in the
\* place of whatever was called new).
RenameEntry(ents, old, new) ==
    LET e == Entry(ents, old)
    IN {x \in ents : x.name \notin {old, new}} \cup {[e EXCEPT !.name = new]}

\* What the user may type into the rename dialog, besides leaving a row's text.
NewNames == {<<>>, voiceA, voiceB}

\* RenameAccepted without the new_path.exists() check.
RenameAcceptedNoExistsCheck(names, model_name, new_name, ok) ==
    ok /\ new_name # <<>> /\ new_name # model_name

\* if ok and new_name and new_name != model_name, and not new_path.exists()
RenameAccepted(names, model_name, new_name, ok) ==
    /\ ok
    /\ new_name # <<>>
    /\ new_name # model_name
    /\ new_name \notin names

\* rename_model: the folder is looked up by the text of the current row;
\* Path.rename raises when no child of the root has that name.
\* QInputDialog.getText gives ("", False) when the dialog is cancelled.
rename_model(new_name, ok) ==
    /\ Tick
    /\ LET ents == fs[model_path].ents
           rec == [NoOp EXCEPT !.op = "rename", !.row = currentRow,
                               !.new_name = new_name, !.ok = ok, !.loaded = FALSE]
       IN IF currentRow < 0
          THEN /\ new_name = <<>> /\ ~ok
               /\ last' = rec
               /\ UNCHANGED <<fs, model_path, saved_path, model_list, currentRow>>
          ELSE LET model_name == model_list[currentRow + 1].text
               IN /\ ~ok => new_name = <<>>
                  /\ IF /\ RenameAccepted(Names(ents), model_name, new_name, ok)
                        /\ model_name \in Names(ents)
                     THEN /\ load_models([fs EXCEPT ![model_path].ents =
                                              RenameEntry(@, model_name, new_name)],
                                         model_path)
                          /\ last' = [rec EXCEPT !.loaded = TRUE]
                          /\ UNCHANGED <<model_path, saved_path>>
                     ELSE /\ last' = rec
                          /\ UNCHANGED <<fs, model_path, saved_path, model_list, currentRow>>

Next ==
    \/ \E p \in Drops : dropEvent(p)
    \/ \E i \in 0..MaxEntries : SelectRow(i)
    \/ Refresh
    \/ \E r \in Roots : update_model_path_from_text(r)
    \/ \E reply \in {"Yes", "No"}, rm_ok \in BOOLEAN,
          kept \in SUBSET UNION {e.children : e \in fs[model_path].ents} :
            remove_model(reply, rm_ok, kept)
    \/ \E n \in NewNames \cup {model_list[i].text : i \in 1..Len(model_list)},
          ok \in BOOLEAN :
            rename_model(n, ok)

Spec == Init /\ [][Next]_vars

\* ------------------------------------------------------------------ outside changes

\* Folder names another program may create under the Model Root.
OutsideNames == {extra, voiceB}

\* Another program creates an empty folder under the Model Root; the list is
\* not told, it catches up at the next load_models (the timer at the latest).
OutsideCreate(name) ==
    /\ Tick
    /\ name \notin Names(fs[model_path].ents)
    /\ TotalEntries(fs) < MaxEntries
    /\ fs' = [fs EXCEPT ![model_path].ents = @ \cup {Dir(name, {})}]
    /\ last' = [NoOp EXCEPT !.op = "outside", !.loaded = FALSE]
    /\ UNCHANGED <<model_path, saved_path, model_list, currentRow>>

\* Another program removes a folder of the Model Root.
OutsideDelete(e) ==
    /\ Tick
    /\ e \in fs[model_path].ents
    /\ fs' = [fs EXCEPT ![model_path].ents = @ \ {e}]
    /\ last' = [NoOp EXCEPT !.op = "outside", !.loaded = FALSE]
    /\ UNCHANGED <<model_path, saved_path, model_list, currentRow>>

NextExt ==
    \/ Next
    \/ \E name \in OutsideNames : OutsideCreate(name)
    \/ \E e \in fs[model_path].ents : OutsideDelete(e)

SpecExt == Init /\ [][NextExt]_vars

\* ------------------------------------------------------------------ properties

\* The Model Root's children before and after a step.
Pre == fs[model_path].ents
Post == fs'[model_path'].ents

\* The folder name a row shows: its text without the glyph of a flagged row.
RowName(item) ==
    IF item.tip = NoTip THEN item.text ELSE SubSeq(item.text, 1, Len(item.text) - 2)

\* The validation status a row shows.
Status(item) ==
    IF item.tip = NoTip THEN "complete"
    ELSE IF item.tip = EmptyTip THEN "empty" ELSE "missing-files"

\* A row is current and within the list.
RowSelected == 0 <= currentRow /\ currentRow < Len(model_list)

ExistingFile(f, ext) == f.kind = "file" /\ Suffix(f.name) = ext

\* n is model_name when that is free among names, else model_name_k for the
\* smallest k >= 1 such that model_name_k is free.
FirstFree(n, names, model_name) ==
    \/ model_name \notin names /\ n = model_name
    \/ /\ model_name \in names
       /\ \E k \in 1..(Cardinality(names) + 1) :
            /\ n = model_name \o <<"_">> \o Digits(k)
            /\ n \notin names
            /\ \A j \in 1..(k - 1) : (model_name \o <<"_">> \o Digits(j)) \in names

\* C1: a drop that holds other items besides one weights file and one index
\* file is imported item by item, each by the single-item rule with its own
\* collision resolution; no item is skipped.
C1_BatchWithExtrasImportsEachItem ==
    [][(/\ last'.op = "drop"
        /\ Len(last'.paths) > 2
        /\ Len(SelectSeq(last'.paths, IsPth)) = 1
        /\ Len(SelectSeq(last'.paths, IsIndex)) = 1)
       => Post = ImportEach(Pre, last'.paths)]_vars

\* C2: the single-item import of an existing file that is not a weights file
\* creates a folder named by the file's stem (suffixed on collision), and the
\* list built next shows that folder.
C2_OtherFileBecomesListedFolder ==
    [][(/\ last'.op = "drop"
        /\ Len(last'.paths) = 1
        /\ last'.paths[1].kind = "file"
        /\ Suffix(last'.paths[1].name) # DotPth)
       => \E e \in Post \ Pre :
            /\ e.kind = "dir"
            /\ FirstFree(e.name, Names(Pre), Stem(last'.paths[1].name))
            /\ \E i \in 1..Len(model_list') : RowName(model_list'[i]) = e.name]_vars

\* C3: renaming a listed entry of any status to a new name that is non-empty,
\* differs from the entry's name (and from the text the dialog proposes) and is
\* free under the Model Root renames the folder: the new name holds the old
\* contents, the old name is gone.
C3_RenameOfAnyListedEntry ==
    [][(/\ last'.op = "rename"
        /\ RowSelected
        /\ RowName(model_list[currentRow + 1]) \in Names(Pre)
        /\ last'.ok
        /\ last'.new_name # <<>>
        /\ last'.new_name # RowName(model_list[currentRow + 1])
        /\ last'.new_name # model_list[currentRow + 1].text
        /\ last'.new_name \notin Names(Pre))
       => LET old == Entry(Pre, RowName(model_list[currentRow + 1]))
          IN /\ [old EXCEPT !.name = last'.new_name] \in Post
             /\ old.name \notin Names(Post)]_vars

\* C4: a drop of exactly one existing weights file and one existing index file
\* adds one folder, named by the weights file's stem under the collision
\* policy, that holds both files; nothing else is added.
C4_PairBecomesOneFolder ==
    [][(/\ last'.op = "drop"
        /\ Len(last'.paths) = 2)
       => \A i, j \in 1..2 :
            (ExistingFile(last'.paths[i], DotPth) /\ ExistingFile(last'.paths[j], DotIndex))
            => \E n \in Names(Post) \ Names(Pre) :
                 /\ FirstFree(n, Names(Pre), Stem(last'.paths[i].name))
                 /\ Post = Pre \cup {Dir(n, {Child(last'.paths[i].name, "file"),
                                             Child(last'.paths[j].name, "file")})}]_vars

C4_Witness ==
    /\ last.op = "drop"
    /\ last.paths = <<File(voiceA \o DotPth), File(voiceA \o DotIndex)>>
    /\ Dir(voiceA \o <<"_", "1">>, {Child(voiceA \o DotPth, "file"),
                                   Child(voiceA \o DotIndex, "file")})
         \in fs[model_path].ents

\* C5: an import leaves every child the Model Root already had as it was, and
\* the other roots alone; no two children share a name; a single item is
\* imported under its base name when that is free, else under base_k for the
\* smallest k >= 1 that is free; and a removal touches at most one child.
C5_ImportNeverReplaces ==
    [][/\ last'.op = "remove" => Cardinality(Pre \ Post) <= 1
       /\ last'.op = "drop"
       => /\ Pre \subseteq Post
          /\ Cardinality(Names(Post)) = Cardinality(Post)
          /\ \A r \in Roots \ {model_path} : fs'[r] = fs[r]
          /\ (Len(last'.paths) = 1 /\ last'.paths[1].kind # "none")
             => \E n \in Names(Post) :
                  /\ Names(Post) \ Names(Pre) = {n}
                  /\ FirstFree(n, Names(Pre),
                               IF last'.paths[1].kind = "file"
                               THEN Stem(last'.paths[1].name)
                               ELSE last'.paths[1].name)]_vars

C5_Witness ==
    /\ last.op = "drop"
    /\ last.paths = <<File(voiceA \o DotPth)>>
    /\ {voiceA, voiceA \o <<"_", "1">>, voiceA \o <<"_", "2">>}
         \subseteq Names(fs[model_path].ents)

\* C6: right after load_models the list has one row per folder of the Model
\* Root, in sorted order; the row shows empty iff the folder has no children;
\* for a folder with children it shows complete iff a .pth file and a .index
\* file are among them, and missing-files otherwise.
C6_StatusOfEveryFolder ==
    last.loaded
    => LET folders == Folders(fs[model_path].ents)
       IN /\ Len(model_list) = Cardinality({e \in fs[model_path].ents : e.kind = "dir"})
          /\ \A i \in 1..Len(folders) :
               LET e == folders[i]
                   both == /\ \E c \in e.children : c.kind = "file" /\ Suffix(c.name) = DotPth
                           /\ \E c \in e.children : c.kind = "file" /\ Suffix(c.name) = DotIndex
               IN /\ RowName(model_list[i]) = e.name
                  /\ (Status(model_list[i]) = "empty") <=> (e.children = {})
                  /\ e.children # {}
                     => /\ (Status(model_list[i]) = "complete") <=> both
                        /\ (Status(model_list[i]) = "missing-files") <=> ~both

C6_Witness ==
    /\ last.loaded
    /\ \E i, j, k \in 1..Len(model_list) :
         /\ Status(model_list[i]) = "empty"
         /\ Status(model_list[j]) = "missing-files"
         /\ Status(model_list[k]) = "complete"
    /\ \E e \in fs[model_path].ents :
         e.kind = "dir" /\ \E c \in e.children : c.kind = "dir" /\ Suffix(c.name) = DotPth

\* C7: a rename whose new name is empty, the entry's own name, or the name of
\* something under the Model Root changes nothing in the filesystem.
C7_RefusedRenameChangesNothing ==
    [][(/\ last'.op = "rename"
        /\ RowSelected
        /\ \/ last'.new_name = <<>>
           \/ last'.new_name = RowName(model_list[currentRow + 1])
           \/ last'.new_name \in Names(Pre))
       => fs' = fs]_vars

C7_Witness ==
    /\ last.op = "rename"
    /\ last.ok
    /\ RowSelected
    /\ last.new_name \in Names(fs[model_path].ents)
    /\ last.new_name # RowName(model_list[currentRow + 1])
    /\ RowName(model_list[currentRow + 1]) \in Names(fs[model_path].ents)

\* C8: remove_model changes the filesystem only when the user confirmed; a
\* declined removal changes nothing; a confirmed one that raises no error
\* removes exactly the selected entry's folder, contents included, and the
\* list built next does not show it.
C8_DeleteOnlyWhenConfirmed ==
    [][last'.op = "remove"
       => /\ last'.reply = "No" => fs' = fs
          /\ fs' # fs => last'.reply = "Yes"
          /\ (/\ RowSelected
              /\ RowName(model_list[currentRow + 1]) \in Names(Pre)
              /\ last'.reply = "Yes"
              /\ last'.rm_ok)
             => LET name == RowName(model_list[currentRow + 1])
                IN /\ Post = Pre \ {Entry(Pre, name)}
                   /\ name \notin Names(Post)
                   /\ \A i \in 1..Len(model_list') : RowName(model_list'[i]) # name]_vars

C8_Witness ==
    /\ last.op = "remove"
    /\ last.row >= 0
    /\ last.reply = "Yes"
    /\ last.rm_ok
    /\ last.loaded
    /\ fs[model_path].ents # {}

\* C9: when an import, a rename, a removal or a root change has finished,
\* succeeded or not, the list shows what load_models would build from the
\* Model Root at that moment.
C9_ListFreshAfterEveryOperation ==
    last.op \in {"drop", "rename", "remove", "root"}
    => model_list = Enumerate(fs[model_path].ents)

\* C10: a confirmed removal removes or changes no folder other than the one
\* the selected row shows, also when folders were created or deleted under the
\* Model Root since the list was built.
C10_DeleteRemovesTheRowShown ==
    [][(/\ last'.op = "remove"
        /\ RowSelected
        /\ last'.reply = "Yes")
       => \A e \in Pre : e.name # RowName(model_list[currentRow + 1]) => e \in Post]_vars

====
